---- MODULE Spec2Model ----
(***************************************************************************)
(* The crawl of src/src/yotagrabber/vehicles.py: update_vehicles checks   *)
(* MODEL and calls get_all_pages, which renders one query per zone         *)
(* (get_vehicles_query), drives                                            *)
(* query_toyota over three zones and up to 40 pages, refreshes the WAF     *)
(* bypass headers, concatenates each zone's vehicleSummary into df and     *)
(* drops duplicate VINs at the end of every page.                          *)
(*                                                                         *)
(* Time is counted in seconds.  since_timer_start is timer() - timer_start *)
(* (the timer's reference point is undefined, only differences matter).    *)
(***************************************************************************)
EXTENDS Integers, Sequences, FiniteSets, TLC

\* ---------------------------------------------------------------- bounds
\* Vehicles of the "overlap" upstream (VINs 1..MaxKey).
MaxKey == 2
\* Records one page (all zones together) carries at most.
MaxPageItems == 2
\* Pages of the "slow" upstream that hold a vehicle not seen before.
SlowPages == 7

\* ------------------------------------------------------ program constants
\* "if page_number > 40: break"
PageCeilingMax == 40
\* requests.post(..., timeout=15)
RequestTimeout == 15
\* sleep(10)
PacingDelay == 10
\* "The WAF bypass expires every 5 minutes"
LifetimeW == 300
\* str(5823 + randbelow(1000))
DistanceBase == 5823
DistanceSpread == 1000
\* "if elapsed_time > 4 * 60"
RefreshR == 4 * 60

\* Zones in the order get_all_pages queries them.
Zones == <<"west", "central", "east">>

\* ------------------------------------------------------------ JSON values
\* A parsed JSON document: null, an object (a record of its members) or a
\* list.  Python's None is Null.
Null == [t |-> "null"]
Unset == [t |-> "unset"]
Obj(m) == [t |-> "obj", m |-> m]
List(s) == [t |-> "list", v |-> s]

\* Python truthiness of a JSON value ("if result", "not result").
Truthy(j) ==
    CASE j.t = "obj" -> DOMAIN j.m # {}
      [] j.t = "list" -> j.v # <<>>
      [] OTHER -> FALSE

\* key in j, for a truthy object.
HasKey(j, key) == j.t = "obj" /\ key \in DOMAIN j.m

\* j[key]: KeyError on an object without the key, TypeError on null or a list.
Subscript(j, key) ==
    CASE j.t = "obj" /\ key \in DOMAIN j.m -> [exc |-> "none", val |-> j.m[key]]
      [] j.t = "obj" -> [exc |-> "KeyError", val |-> Null]
      [] OTHER -> [exc |-> "TypeError", val |-> Null]

\* ------------------------------------------------------------ query_toyota
\* query_toyota without its except clause: the JSONDecodeError leaves it.
query_toyota_uncaught(resp) ==
    IF ~resp.transport_ok
    THEN [exc |-> "TransportError", val |-> Null, printed |-> "nothing"]
    ELSE IF ~resp.parses
    THEN [exc |-> "JSONDecodeError", val |-> Null, printed |-> "nothing"]
    ELSE LET data == Subscript(resp.json, "data")
             result == IF data.exc = "none"
                       THEN Subscript(data.val, "locateVehiclesByZip")
                       ELSE data
         IN  IF result.exc # "none"
             THEN [exc |-> result.exc, val |-> Null, printed |-> "nothing"]
             ELSE IF ~Truthy(result.val) \/ ~HasKey(result.val, "vehicleSummary")
             THEN [exc |-> "none", val |-> Null, printed |-> "text"]
             ELSE [exc |-> "none", val |-> result.val, printed |-> "nothing"]

\* requests.post raised (timeout, connection error): nothing catches it.
\* resp.json() raising JSONDecodeError is the only exception caught.
query_toyota(resp) ==
    IF ~resp.transport_ok
    THEN [exc |-> "TransportError", val |-> Null, printed |-> "nothing"]
    ELSE IF ~resp.parses
    THEN [exc |-> "none", val |-> Null, printed |-> "headers_and_text"]
    ELSE LET data == Subscript(resp.json, "data")
             result == IF data.exc = "none"
                       THEN Subscript(data.val, "locateVehiclesByZip")
                       ELSE data
         IN  IF result.exc # "none"
             THEN [exc |-> result.exc, val |-> Null, printed |-> "nothing"]
             ELSE IF ~Truthy(result.val) \/ ~HasKey(result.val, "vehicleSummary")
             THEN [exc |-> "none", val |-> Null, printed |-> "text"]
             ELSE [exc |-> "none", val |-> result.val, printed |-> "nothing"]

\* ------------------------------------------------------------ the dataframe
\* pd.json_normalize of a list of flat records: one row per record, in order.
json_normalize(items) == [i \in 1..Len(items) |-> [vin |-> items[i].vin, payload |-> items[i].payload]]

\* df = pd.json_normalize(...) in place of the concat: the frame is replaced.
concat_replace(frame, rows) == rows

\* pd.concat([df, rows]): the rows of df, then the new rows.
concat(frame, rows) == frame \o rows

\* drop_duplicates without inplace=True: df is left as it was.
drop_duplicates_not_inplace(frame) == frame

\* drop_duplicates(keep="last").
RECURSIVE drop_duplicates_keep_last(_)
drop_duplicates_keep_last(frame) ==
    IF frame = <<>> THEN <<>>
    ELSE IF Head(frame).vin \in {Tail(frame)[i].vin : i \in 1..(Len(frame) - 1)}
         THEN drop_duplicates_keep_last(Tail(frame))
         ELSE <<Head(frame)>> \o drop_duplicates_keep_last(Tail(frame))

RECURSIVE drop_from(_, _)
drop_from(rows, seen) ==
    IF rows = <<>> THEN <<>>
    ELSE IF Head(rows).vin \in seen
         THEN drop_from(Tail(rows), seen)
         ELSE <<Head(rows)>> \o drop_from(Tail(rows), seen \cup {Head(rows).vin})

\* df.drop_duplicates(subset=["vin"]): keep="first", the order kept.
drop_duplicates(frame) == drop_from(frame, {})

\* -------------------------------------------------------------- upstream
\* What the remote endpoint may answer.  Three upstreams bound the inputs:
\*   "overlap": MaxKey vehicles that every zone may list on every page; the
\*              zones disagree on the record of vehicle 1 (payload "a" or
\*              "b"); answers take 5 s;
\*   "deep":    page n lists vehicle n (new) or n-1 (seen); more pages than
\*              the ceiling; answers take 5 s;
\*   "slow":    as "deep" with SlowPages vehicles; an answer takes 0 to
\*              RequestTimeout seconds;
\*   "brief":   as "slow", answers take 5 s; the run under which randbelow
\*              draws either end of its range (0 elsewhere).
Upstreams == {"overlap", "deep", "slow", "brief"}

CatalogueDepth(up) == IF up = "deep" THEN PageCeilingMax + 1 ELSE SlowPages

ItemsAt(up, n) ==
    IF up = "overlap"
    THEN {[vin |-> k, payload |-> "a"] : k \in 1..MaxKey} \cup {[vin |-> 1, payload |-> "b"]}
    ELSE {[vin |-> k, payload |-> "a"] : k \in {n - 1, n} \cap 1..CatalogueDepth(up)}

SeqsUpTo(S, n) == UNION {[1..m -> S] : m \in 0..n}

ItemLists(up, n, room) ==
    SeqsUpTo(ItemsAt(up, n), IF up = "overlap" \/ room < 1 THEN room ELSE 1)

\* The document whose data.locateVehiclesByZip is container.
Doc(container) == Obj([data |-> Obj([locateVehiclesByZip |-> container])])

JsonDocs(lists) ==
    { Obj([errors |-> Null]),
      Obj([data |-> Null]),
      Obj([data |-> Obj([errors |-> Null])]),
      Doc(Null),
      Doc(Obj([pagination |-> Null])),
      Doc(Obj([vehicleSummary |-> Null])) }
    \cup {Doc(Obj([vehicleSummary |-> List(l)])) : l \in lists}

Responses(up, n, room) ==
    { [transport_ok |-> FALSE, parses |-> FALSE, json |-> Null],
      [transport_ok |-> TRUE, parses |-> FALSE, json |-> Null] }
    \cup {[transport_ok |-> TRUE, parses |-> TRUE, json |-> j] :
             j \in JsonDocs(ItemLists(up, n, room))}

FetchTimes(up) == IF up = "slow" THEN {0, 5, 10, RequestTimeout} ELSE {5}

\* wafbypass.WAFBypass().run(): returns headers or fails.
BypassOutcomes == {"headers", "fails"}

\* randbelow(1000)
Spreads(up) == IF up = "brief" THEN {0, DistanceSpread - 1} ELSE {0}

\* ---------------------------------------------------------------- queries
\* os.environ.get("MODEL"): None when the variable is not set.
NoModel == "<None>"
Models == {NoModel, "", "rav4"}

\* graphql/vehicles.graphql: a text with one slot for each placeholder.
Template ==
    [zip |-> "ZIPCODE", model |-> "MODELCODE", distance |-> "DISTANCEMILES",
     leadid |-> "LEADIDUUID", page |-> "PAGENUMBER"]

\* str.replace: a new text; the one it is called on is left as it is.
replace(query, slot, old, new) ==
    IF query[slot] = old THEN [query EXCEPT ![slot] = new] ELSE query

zip_codes == [west |-> "84101", central |-> "73007", east |-> "27608"]

\* The identifier generated once, when the module is loaded.
uuid4_at_import(calls) == ToString(1)

\* str(uuid.uuid4()): never the value of another call.
uuid4(calls) == ToString(calls + 1)

\* The page number substituted when the query is rendered.
get_vehicles_query_first_page(zone, model, spread, calls) ==
    [exc |-> IF model = NoModel THEN "TypeError" ELSE "none",
     val |-> [zip |-> zip_codes[zone], model |-> model,
              distance |-> ToString(DistanceBase + spread),
              leadid |-> uuid4(calls), page |-> ToString(1)]]

\* The body of get_vehicles_query; replace() raises TypeError on None.
get_vehicles_query(zone, model, spread, calls) ==
    LET q1 == replace(Template, "zip", "ZIPCODE", zip_codes[zone])
    IN  IF model = NoModel
        THEN [exc |-> "TypeError", val |-> q1]
        ELSE LET q2 == replace(q1, "model", "MODELCODE", model)
                 q3 == replace(q2, "distance", "DISTANCEMILES",
                               ToString(DistanceBase + spread))
             IN  [exc |-> "none",
                  val |-> replace(q3, "leadid", "LEADIDUUID", uuid4(calls))]

\* @cache: the body runs on the first call for a zone only.
cached_query(cache, calls, zone, model, spread) ==
    IF zone \in DOMAIN cache
    THEN [exc |-> "none", val |-> cache[zone], cache |-> cache, calls |-> calls]
    ELSE LET out == get_vehicles_query(zone, model, spread, calls)
         IN  IF out.exc # "none"
             THEN [exc |-> out.exc, val |-> out.val, cache |-> cache, calls |-> calls]
             ELSE [exc |-> "none", val |-> out.val,
                   cache |-> [z \in DOMAIN cache \cup {zone} |->
                                 IF z = zone THEN out.val ELSE cache[z]],
                   calls |-> calls + 1]

\* query.replace("PAGENUMBER", str(page_number))
page_query(query, n) == replace(query, "page", "PAGENUMBER", ToString(n))

\* ----------------------------------------------------------------- state
VARIABLES
    upstream,           \* which upstream answers (fixed for the run)
    pc,                 \* position in get_all_pages
    page_number,
    df,                 \* the dataframe: a sequence of rows
    headers,            \* the WAF bypass headers held (0: none), numbered by acquisition
    since_timer_start,  \* timer() - timer_start
    last_run_counter,
    west_result,
    central_result,
    east_result,
    exit_reason,        \* which break left the loop
    exc,                \* the exception that left get_all_pages, if any
    diag,               \* what query_toyota printed for each zone of this page
    fetch_log,          \* history: the <<page, zone>> of every request sent
    first_seen,         \* history: for each VIN, the first record received
    MODEL,              \* os.environ.get("MODEL"), read when the module is loaded
    query_cache,        \* @cache of get_vehicles_query: zone -> query
    queries,            \* west_query, central_query, east_query
    uuid_calls,         \* calls of uuid.uuid4() made so far
    sent,               \* history: the query and headers of every request sent
    bypass_calls,       \* history: calls of WAFBypass().run() made so far
    sleeps              \* history: sleep(10) calls that have returned

vars == <<upstream, pc, page_number, df, headers, since_timer_start,
          last_run_counter, west_result, central_result, east_result,
          exit_reason, exc, diag, fetch_log, first_seen, MODEL, query_cache,
          queries, uuid_calls, sent, bypass_calls, sleeps>>

\* What update_vehicles and the rendering of the queries set.
render_vars == <<MODEL, query_cache, queries, uuid_calls>>

NoQueries == [z \in {} |-> Template]

NoExc == [kind |-> "none", in |-> "none"]
NoDiag == [west |-> "unset", central |-> "unset", east |-> "unset"]

VinsOf(rows) == {rows[i].vin : i \in 1..Len(rows)}

\* The first record of each VIN in rows.
FirstOf(rows) ==
    {rows[i] : i \in {k \in 1..Len(rows) : \A j \in 1..(k - 1) : rows[j].vin # rows[k].vin}}

\* Records the page may still carry.
Room == MaxPageItems - (Len(df) - last_run_counter)

\* ------------------------------------------------------------ get_all_pages
\* What holds when the module has been loaded, whichever function is called.
Loaded ==
    /\ upstream \in Upstreams
    /\ MODEL \in Models
    /\ query_cache = NoQueries
    /\ queries = NoQueries
    /\ uuid_calls = 0
    /\ sent = <<>>
    /\ bypass_calls = 0
    /\ sleeps = 0
    /\ page_number = 1
    /\ df = <<>>
    /\ headers = 0
    /\ since_timer_start = 0
    /\ last_run_counter = 0
    /\ west_result = Unset
    /\ central_result = Unset
    /\ east_result = Unset
    /\ exit_reason = "none"
    /\ exc = NoExc
    /\ diag = NoDiag
    /\ fetch_log = <<>>
    /\ first_seen = {}

\* The run of the program: update_vehicles is called.
Init == Loaded /\ pc = "update_vehicles"

\* get_all_pages called by update_vehicles or by an importer of the module.
InitCalls == Loaded /\ pc \in {"update_vehicles", "get_all_pages"}

\* "if not MODEL"
model_missing(model) == model = NoModel \/ model = ""

\* update_vehicles: sys.exit without MODEL, get_all_pages otherwise.
UpdateVehicles ==
    /\ pc = "update_vehicles"
    /\ IF model_missing(MODEL)
       THEN /\ pc' = "raised"
            /\ exc' = [kind |-> "ConfigError", in |-> "update_vehicles"]
       ELSE /\ pc' = "get_all_pages"
            /\ exc' = exc
    /\ UNCHANGED <<upstream, page_number, df, headers, since_timer_start,
                   last_run_counter, west_result, central_result, east_result,
                   exit_reason, diag, fetch_log, first_seen, render_vars, sent,
                   bypass_calls, sleeps>>

\* df = pd.DataFrame(); page_number = 1; the three get_vehicles_query calls.
RenderQueries ==
    /\ pc = "get_all_pages"
    /\ \E sw, sc, se \in Spreads(upstream) :
         LET west == cached_query(query_cache, uuid_calls, "west", MODEL, sw)
             central == cached_query(west.cache, west.calls, "central", MODEL, sc)
             east == cached_query(central.cache, central.calls, "east", MODEL, se)
         IN  IF west.exc # "none" \/ central.exc # "none" \/ east.exc # "none"
             THEN /\ pc' = "raised"
                  /\ exc' = [kind |-> "TypeError", in |-> "get_vehicles_query"]
                  /\ UNCHANGED <<query_cache, queries, uuid_calls>>
             ELSE /\ pc' = "bypass"
                  /\ exc' = exc
                  /\ query_cache' = east.cache
                  /\ uuid_calls' = east.calls
                  /\ queries' = [west |-> west.val, central |-> central.val,
                                 east |-> east.val]
    /\ df' = <<>>
    /\ page_number' = 1
    /\ UNCHANGED <<upstream, MODEL, headers, since_timer_start,
                   last_run_counter, west_result, central_result, east_result,
                   exit_reason, diag, fetch_log, first_seen, sent, bypass_calls,
                   sleeps>>

\* The ceiling tested one page late.
past_ceiling_late(n) == n > PageCeilingMax + 1

\* "if page_number > 40"
past_ceiling(n) == n > PageCeilingMax

\* The refresh left to the expiry of the headers.
expired_at_lifetime(elapsed_time) == elapsed_time > LifetimeW

\* The refresh at the threshold itself.
expired_at_threshold(elapsed_time) == elapsed_time >= RefreshR

\* "if elapsed_time > 4 * 60"
expired(elapsed_time) == elapsed_time > RefreshR

\* Convergence taken for "nothing found at all".
found_all_when_empty(frame, counter) == Len(frame) = 0

\* Convergence taken for a frame that has shrunk.
found_all_when_shrunk(frame, counter) == Len(frame) < counter

\* "if len(df) == last_run_counter"
found_all(frame, counter) == Len(frame) = counter

\* "if west_result and "vehicleSummary" in west_result"
has_summary(result) == Truthy(result) /\ HasKey(result, "vehicleSummary")

\* headers = wafbypass.WAFBypass().run(); timer_start = timer()
BypassWAF ==
    /\ pc = "bypass"
    /\ \E o \in BypassOutcomes :
         IF o = "headers"
         THEN /\ headers' = 1
              /\ since_timer_start' = 0
              /\ last_run_counter' = 0
              /\ pc' = "top"
              /\ exc' = exc
         ELSE /\ pc' = "raised"
              /\ exc' = [kind |-> "CredentialError", in |-> "wafbypass"]
              /\ UNCHANGED <<headers, since_timer_start, last_run_counter>>
    /\ bypass_calls' = bypass_calls + 1
    /\ UNCHANGED <<upstream, page_number, df, west_result, central_result,
                   east_result, exit_reason, diag, fetch_log, first_seen,
                   render_vars, sent, sleeps>>

\* The ceiling's break.
PageCeiling ==
    /\ pc = "top"
    /\ past_ceiling(page_number)
    /\ pc' = "done"
    /\ exit_reason' = "PageCeiling"
    /\ UNCHANGED <<upstream, page_number, df, headers, since_timer_start,
                   last_run_counter, west_result, central_result, east_result,
                   exc, diag, fetch_log, first_seen, render_vars, sent,
                   bypass_calls, sleeps>>

\* The results of the page before are dead from here on.
StartPage ==
    /\ pc' = "west"
    /\ west_result' = Unset
    /\ central_result' = Unset
    /\ east_result' = Unset
    /\ diag' = NoDiag

\* The headers are young enough: the page starts with the ones held.
KeepHeaders ==
    /\ pc = "top"
    /\ ~past_ceiling(page_number)
    /\ ~expired(since_timer_start)
    /\ StartPage
    /\ UNCHANGED <<upstream, page_number, df, headers, since_timer_start,
                   last_run_counter, exit_reason, exc, fetch_log, first_seen,
                   render_vars, sent, bypass_calls, sleeps>>

\* A failed refresh caught, the check made again.
RefreshHeaders_retrying ==
    /\ pc = "top"
    /\ ~past_ceiling(page_number)
    /\ expired(since_timer_start)
    /\ \E o \in BypassOutcomes :
         IF o = "headers"
         THEN /\ headers' = headers + 1
              /\ since_timer_start' = 0
              /\ StartPage
         ELSE /\ pc' = "top"
              /\ UNCHANGED <<headers, since_timer_start, west_result,
                             central_result, east_result, diag>>
    /\ bypass_calls' = bypass_calls + 1
    /\ UNCHANGED <<upstream, page_number, df, last_run_counter, exit_reason,
                   exc, fetch_log, first_seen, render_vars, sent, sleeps>>

\* "Refreshing WAF bypass"
RefreshHeaders ==
    /\ pc = "top"
    /\ ~past_ceiling(page_number)
    /\ expired(since_timer_start)
    /\ \E o \in BypassOutcomes :
         IF o = "headers"
         THEN /\ headers' = headers + 1
              /\ since_timer_start' = 0
              /\ StartPage
              /\ exc' = exc
         ELSE /\ pc' = "raised"
              /\ exc' = [kind |-> "CredentialError", in |-> "wafbypass"]
              /\ UNCHANGED <<headers, since_timer_start, west_result,
                             central_result, east_result, diag>>
    /\ bypass_calls' = bypass_calls + 1
    /\ UNCHANGED <<upstream, page_number, df, last_run_counter, exit_reason,
                   fetch_log, first_seen, render_vars, sent, sleeps>>

\* The value the zone's result variable takes.
result_after(out, before) == IF out.exc = "none" THEN out.val ELSE before

\* One zone of the page: query_toyota, then the concat of its vehicleSummary.
zone_step(zone, next, out, took) ==
    /\ fetch_log' = Append(fetch_log, <<page_number, zone>>)
    /\ sent' = Append(sent, [query |-> page_query(queries[zone], page_number),
                             headers |-> headers])
    /\ since_timer_start' = since_timer_start + took
    /\ diag' = [diag EXCEPT ![zone] = out.printed]
    /\ IF out.exc # "none"
       THEN /\ pc' = "raised"
            /\ exc' = [kind |-> out.exc, in |-> "query_toyota"]
            /\ UNCHANGED <<df, first_seen>>
       ELSE IF has_summary(out.val)
       THEN LET summary == out.val.m.vehicleSummary
            IN  IF summary.t # "list"
                THEN \* len(None)
                     /\ pc' = "raised"
                     /\ exc' = [kind |-> "TypeError", in |-> "get_all_pages"]
                     /\ UNCHANGED <<df, first_seen>>
                ELSE /\ df' = concat(df, json_normalize(summary.v))
                     /\ first_seen' = first_seen \cup
                            {r \in FirstOf(summary.v) : r.vin \notin {s.vin : s \in first_seen}}
                     /\ pc' = next
                     /\ exc' = exc
       ELSE /\ pc' = next
            /\ exc' = exc
            /\ UNCHANGED <<df, first_seen>>
    /\ UNCHANGED <<upstream, page_number, headers, last_run_counter, exit_reason,
                   render_vars, bypass_calls, sleeps>>

FetchWest ==
    /\ pc = "west"
    /\ \E resp \in Responses(upstream, page_number, Room), took \in FetchTimes(upstream) :
         LET out == query_toyota(resp)
         IN  /\ zone_step("west", "central", out, took)
             /\ west_result' = result_after(out, west_result)
    /\ UNCHANGED <<central_result, east_result>>

FetchCentral ==
    /\ pc = "central"
    /\ \E resp \in Responses(upstream, page_number, Room), took \in FetchTimes(upstream) :
         LET out == query_toyota(resp)
         IN  /\ zone_step("central", "east", out, took)
             /\ central_result' = result_after(out, central_result)
    /\ UNCHANGED <<west_result, east_result>>

FetchEast ==
    /\ pc = "east"
    /\ \E resp \in Responses(upstream, page_number, Room), took \in FetchTimes(upstream) :
         LET out == query_toyota(resp)
         IN  /\ zone_step("east", "dedup", out, took)
             /\ east_result' = result_after(out, east_result)
    /\ UNCHANGED <<west_result, central_result>>

\* drop_duplicates, then "All vehicles found.": the convergence break.
AllVehiclesFound ==
    /\ pc = "dedup"
    /\ found_all(drop_duplicates(df), last_run_counter)
    /\ df' = drop_duplicates(df)
    /\ pc' = "done"
    /\ exit_reason' = "Converged"
    /\ UNCHANGED <<upstream, page_number, headers, since_timer_start,
                   last_run_counter, west_result, central_result, east_result,
                   exc, diag, fetch_log, first_seen, render_vars, sent,
                   bypass_calls, sleeps>>

\* The loop continued without the sleep.
NextPage_without_sleep ==
    /\ pc = "dedup"
    /\ ~found_all(drop_duplicates(df), last_run_counter)
    /\ df' = drop_duplicates(df)
    /\ last_run_counter' = Len(drop_duplicates(df))
    /\ page_number' = page_number + 1
    /\ pc' = "top"
    /\ UNCHANGED <<upstream, headers, since_timer_start, west_result,
                   central_result, east_result, exit_reason, exc, diag,
                   fetch_log, first_seen, render_vars, sent, bypass_calls,
                   sleeps>>

\* drop_duplicates, then the counter and the page number move on.
NextPage ==
    /\ pc = "dedup"
    /\ ~found_all(drop_duplicates(df), last_run_counter)
    /\ df' = drop_duplicates(df)
    /\ last_run_counter' = Len(drop_duplicates(df))
    /\ page_number' = page_number + 1
    /\ pc' = "sleep"
    /\ UNCHANGED <<upstream, headers, since_timer_start, west_result,
                   central_result, east_result, exit_reason, exc, diag,
                   fetch_log, first_seen, render_vars, sent, bypass_calls,
                   sleeps>>

\* The headers renewed at the end of the page, after the sleep.
Pace_refreshing ==
    /\ pc = "sleep"
    /\ pc' = "top"
    /\ sleeps' = sleeps + 1
    /\ IF expired(since_timer_start + PacingDelay)
       THEN /\ headers' = headers + 1
            /\ since_timer_start' = 0
            /\ bypass_calls' = bypass_calls + 1
       ELSE /\ since_timer_start' = since_timer_start + PacingDelay
            /\ UNCHANGED <<headers, bypass_calls>>
    /\ UNCHANGED <<upstream, page_number, df, last_run_counter,
                   west_result, central_result, east_result, exit_reason, exc,
                   diag, fetch_log, first_seen, render_vars, sent>>

\* sleep(10)
Pace ==
    /\ pc = "sleep"
    /\ since_timer_start' = since_timer_start + PacingDelay
    /\ pc' = "top"
    /\ sleeps' = sleeps + 1
    /\ UNCHANGED <<upstream, page_number, df, headers, last_run_counter,
                   west_result, central_result, east_result, exit_reason, exc,
                   diag, fetch_log, first_seen, render_vars, sent,
                   bypass_calls>>

Next ==
    \/ UpdateVehicles
    \/ RenderQueries
    \/ BypassWAF
    \/ PageCeiling
    \/ KeepHeaders
    \/ RefreshHeaders
    \/ FetchWest
    \/ FetchCentral
    \/ FetchEast
    \/ AllVehiclesFound
    \/ NextPage
    \/ Pace

Spec == Init /\ [][Next]_vars

\* The calls an importer of the module can make.
SpecCalls == InitCalls /\ [][Next]_vars

\* The run with its scheduling: one thread, every call returns or raises, so
\* a step that can be taken is taken.
FairSpec == Spec /\ WF_vars(Next)

\* ============================================================== claims
\* The rows accepted by the pages that have ended: the first
\* last_run_counter rows of df.
AcceptedLen == IF last_run_counter <= Len(df) THEN last_run_counter ELSE Len(df)
AcceptedVins == {df[i].vin : i \in 1..AcceptedLen}

\* The records a zone's result handed to the concat.
ListOf(result) ==
    IF has_summary(result) /\ result.m.vehicleSummary.t = "list"
    THEN result.m.vehicleSummary.v
    ELSE <<>>

\* The records of the page in processing order.
PageRecords == ListOf(west_result) \o ListOf(central_result) \o ListOf(east_result)

PagesLogged == {fetch_log[i][1] : i \in 1..Len(fetch_log)}

\* C1: a page whose zones return no VIN that was not already accepted ends
\* the crawl as Converged at that page: the page number stays, no request
\* follows, and nothing moves once the crawl is done.
C1_Convergence ==
    [][ /\ (pc = "dedup" /\ VinsOf(df) = AcceptedVins)
            => /\ pc' = "done"
               /\ exit_reason' = "Converged"
               /\ page_number' = page_number
               /\ fetch_log' = fetch_log
        /\ pc = "done" => UNCHANGED vars ]_vars

\* A crawl that converged on page 2 after west listed only a vehicle it had.
C1_Witness ==
    /\ pc = "done"
    /\ exit_reason = "Converged"
    /\ page_number = 2
    /\ Len(ListOf(west_result)) >= 1
    /\ Len(df) >= 1
    /\ ~ (2 + 1 \in PagesLogged)

\* C2: no request carries a page number above 40, and a crawl that leaves by
\* the ceiling has requested pages 1..40, each zone once, and no other page.
C2_PageCeiling ==
    /\ \A i \in 1..Len(fetch_log) : fetch_log[i][1] <= PageCeilingMax
    /\ pc \in {"west", "central", "east", "dedup"} => page_number <= PageCeilingMax
    /\ page_number <= PageCeilingMax + 1
    /\ (pc = "top" /\ page_number = PageCeilingMax + 1) => last_run_counter >= PageCeilingMax
    /\ exit_reason = "PageCeiling"
         => /\ pc = "done"
            /\ page_number = PageCeilingMax + 1
            /\ Len(fetch_log) = 3 * PageCeilingMax
            /\ \A p \in 1..PageCeilingMax : \A z \in 1..3 :
                   fetch_log[3 * (p - 1) + z] = <<p, Zones[z]>>
            /\ Len(df) >= PageCeilingMax

\* The crawl of a never converging upstream, ended by the ceiling.
C2_Witness ==
    /\ pc = "done"
    /\ exit_reason = "PageCeiling"
    /\ Len(df) = PageCeilingMax
    /\ fetch_log[Len(fetch_log)] = <<PageCeilingMax, "east">>

\* C3: after every page's drop_duplicates, and in the frame returned, no two
\* rows of df have the same VIN.
C3_Dedup ==
    pc \in {"top", "sleep", "done"}
        => \A i, j \in 1..Len(df) : df[i].vin = df[j].vin => i = j

\* A page has ended on which west and central listed the same vehicle, and
\* west listed it twice.
C3_Witness ==
    /\ pc = "sleep"
    /\ VinsOf(ListOf(west_result)) \cap VinsOf(ListOf(central_result)) # {}
    /\ Len(PageRecords) > Cardinality(VinsOf(PageRecords))
    /\ Len(df) >= 1

\* C4: whenever a request is about to be sent, headers are held and they were
\* acquired less than W = 300 s before.
C4_CredentialLifetime ==
    pc \in {"west", "central", "east"}
        => headers >= 1 /\ since_timer_start < LifetimeW

\* The oldest headers a request is sent with: the check passed at 240 s and
\* two zones took the whole timeout.
C4_Witness ==
    /\ pc = "east"
    /\ since_timer_start = RefreshR + 2 * RequestTimeout

\* C5 as stated: the check at the top of a page re-acquires exactly when
\* 240 s or more have passed since the headers were acquired.
C5_RefreshAtOrAfterR ==
    [][ (pc = "top" /\ pc' = "west")
            => ((since_timer_start >= RefreshR) <=> (headers' # headers)) ]_vars

\* C5 as amended: the check re-acquires exactly when more than 240 s have
\* passed (one acquisition, the clock reset); at 240 s or less it keeps the
\* headers and the clock.
C5_RefreshAfterR ==
    [][ (pc = "top" /\ pc' = "west")
            => IF since_timer_start > RefreshR
               THEN headers' = headers + 1 /\ since_timer_start' = 0
               ELSE headers' = headers /\ since_timer_start' = since_timer_start ]_vars

\* A page that starts with headers re-acquired by the check.
C5_Witness ==
    /\ pc = "west"
    /\ headers = 2
    /\ since_timer_start = 0
    /\ page_number > 1

\* C6 as stated: whenever the transport succeeds, query_toyota returns (the
\* container or None); no exception leaves it.
C6_QueryToyotaNeverRaises ==
    ~ (pc = "raised" /\ exc.in = "query_toyota" /\ exc.kind # "TransportError")

\* C7 as stated: the only failures that leave get_all_pages are ConfigError
\* and CredentialError; a failed request is absorbed.
C7_OnlyFatalErrorsEscape ==
    pc = "raised" => exc.kind \in {"ConfigError", "CredentialError"}

\* The VINs of the page's records that were not accepted before the page.
PageNewVins == VinsOf(PageRecords) \ AcceptedVins

\* C8: a zone whose body does not parse contributes nothing and raises
\* nothing, every zone of the page is still requested, and the page's
\* drop_duplicates leaves df grown by exactly the records of the valid zones
\* whose VINs are new: one row per new VIN, the accepted rows kept.
C8_MalformedTolerance ==
    [][ /\ exc'.kind # "JSONDecodeError"
        /\ \A z \in {"west", "central", "east"} :
               (diag'[z] = "headers_and_text" /\ diag[z] = "unset")
                   => /\ pc' # "raised"
                      /\ df' = df
        /\ pc = "dedup"
               => /\ Len(fetch_log) >= 3
                  /\ \A z \in 1..3 :
                         fetch_log[Len(fetch_log) - 3 + z] = <<page_number, Zones[z]>>
                  /\ df = SubSeq(df, 1, AcceptedLen) \o PageRecords
                  /\ pc' \in {"sleep", "done"}
                  /\ Len(df') = last_run_counter + Cardinality(PageNewVins)
                  /\ VinsOf(df') = AcceptedVins \cup PageNewVins
                  /\ SubSeq(df', 1, last_run_counter) = SubSeq(df, 1, last_run_counter) ]_vars

\* Page 1 has ended: west's body did not parse, central listed two vehicles
\* with distinct VINs, and df holds exactly these two.
C8_Witness ==
    /\ pc = "sleep"
    /\ page_number = 2
    /\ diag.west = "headers_and_text"
    /\ west_result = Null
    /\ Cardinality(VinsOf(ListOf(central_result))) = 2
    /\ ListOf(east_result) = <<>>
    /\ df = ListOf(central_result)

\* C9: after every page's drop_duplicates, and in the frame returned, the
\* row stored for a VIN is the first record received with that VIN (pages
\* ascending, west then central then east, list order).
C9_FirstSeenWins ==
    pc \in {"top", "sleep", "done"}
        => /\ \A i \in 1..Len(df) : df[i] \in first_seen
           /\ VinsOf(df) = {r.vin : r \in first_seen}

\* West and central listed vehicle 1 with different payloads on one page;
\* the row kept is west's.
C9_Witness ==
    /\ pc = "sleep"
    /\ \E i \in 1..Len(ListOf(west_result)) : \E j \in 1..Len(ListOf(central_result)) :
           /\ ListOf(west_result)[i].vin = ListOf(central_result)[j].vin
           /\ ListOf(west_result)[i].payload # ListOf(central_result)[j].payload
           /\ \A k \in 1..(i - 1) : ListOf(west_result)[k].vin # ListOf(west_result)[i].vin
           /\ \E r \in 1..Len(df) : df[r] = ListOf(west_result)[i]

\* C10: no step removes or changes an accepted row, and last_run_counter
\* never decreases (it never exceeds the length of df).
C10_NoEviction ==
    [][ /\ last_run_counter' >= last_run_counter
        /\ last_run_counter' <= Len(df')
        /\ Len(df') >= last_run_counter
        /\ \A i \in 1..AcceptedLen : i <= Len(df') /\ df'[i] = df[i] ]_vars

\* The second page has ended: it listed an accepted vehicle with another
\* payload and a new vehicle; the accepted row is as it was.
C10_Witness ==
    /\ pc = "sleep"
    /\ page_number = 3
    /\ Len(df) = 2
    /\ \E i \in 1..Len(PageRecords) :
           PageRecords[i].vin = df[1].vin /\ PageRecords[i] # df[1]

\* C11 as stated: with MODEL missing or empty nothing of the crawl happens:
\* no query is rendered (get_vehicles_query itself fails), no headers are
\* acquired and no request is sent.
C11_NoQueryWithoutModel ==
    MODEL \in {NoModel, ""}
        => /\ DOMAIN query_cache = {}
           /\ DOMAIN queries = {}
           /\ bypass_calls = 0
           /\ fetch_log = <<>>

\* C12: a call of WAFBypass().run() that fails, the first one or a refresh,
\* leaves get_all_pages as an exception: no call of run() follows, no
\* request follows, and no frame is returned.
C12_CredentialError ==
    [][ /\ bypass_calls' \in {bypass_calls, bypass_calls + 1}
        /\ (bypass_calls' = bypass_calls + 1 /\ headers' = headers)
            => /\ pc' = "raised"
               /\ exc' = [kind |-> "CredentialError", in |-> "wafbypass"]
               /\ exit_reason' = "none"
               /\ fetch_log' = fetch_log
        /\ bypass_calls > headers => UNCHANGED vars ]_vars

\* The refresh at the top of a later page has failed.
C12_Witness ==
    /\ pc = "raised"
    /\ exc.kind = "CredentialError"
    /\ headers = 1
    /\ bypass_calls = 2
    /\ page_number > 1
    /\ exit_reason = "none"

\* C13 as stated: the requests sent are (1, west), (1, central), (1, east),
\* (2, west), ... without a gap or a repeat, and every page that was begun
\* has had its three requests when the crawl has ended, whatever the zones
\* answered.
C13_FetchOrder ==
    /\ \A i \in 1..Len(fetch_log) :
           fetch_log[i] = <<((i - 1) \div 3) + 1, Zones[((i - 1) % 3) + 1]>>
    /\ pc \in {"top", "sleep", "west"} => Len(fetch_log) = 3 * (page_number - 1)
    /\ pc = "central" => Len(fetch_log) = 3 * (page_number - 1) + 1
    /\ pc = "east" => Len(fetch_log) = 3 * (page_number - 1) + 2
    /\ pc = "dedup" => Len(fetch_log) = 3 * page_number
    /\ (pc = "done" /\ exit_reason = "Converged") => Len(fetch_log) = 3 * page_number
    /\ (pc = "done" /\ exit_reason = "PageCeiling")
           => Len(fetch_log) = 3 * (page_number - 1)
    /\ pc = "raised" => Len(fetch_log) % 3 = 0

\* C14: a page on which query_toyota returned None for every zone ends the
\* crawl as Converged at that page: df is returned as the pages before left
\* it (empty on page 1), the page is not requested again, no later page is
\* requested and no sleep follows.
C14_DegradedPage ==
    [][ (/\ pc = "dedup"
         /\ west_result = Null
         /\ central_result = Null
         /\ east_result = Null)
            => /\ pc' = "done"
               /\ exit_reason' = "Converged"
               /\ page_number' = page_number
               /\ fetch_log' = fetch_log
               /\ df' = df
               /\ Len(df') = last_run_counter
               /\ (page_number = 1 => df' = <<>>)
               /\ sleeps' = sleeps ]_vars

\* Page 2 of the "slow" upstream gave None three times: the crawl is done
\* with the vehicle of page 1, though page 3 would have listed another.
C14_Witness ==
    /\ pc = "done"
    /\ exit_reason = "Converged"
    /\ upstream = "slow"
    /\ page_number = 2
    /\ west_result = Null /\ central_result = Null /\ east_result = Null
    /\ Len(df) = 1
    /\ Len(fetch_log) = 6
    /\ ItemsAt(upstream, 3) \ first_seen # {}

\* C15: every page but the first is begun (its check of the headers and its
\* requests) after one sleep(10) more than the page before it, the sleep
\* takes PacingDelay seconds, and the page on which the crawl converges is
\* followed by no sleep.
C15_Pacing ==
    [][ /\ pc \in {"top", "west", "central", "east", "dedup"}
            => sleeps = page_number - 1
        /\ pc = "sleep" => sleeps = page_number - 2
        /\ (pc = "done" /\ exit_reason = "Converged") => sleeps = page_number - 1
        /\ page_number' # page_number
            => /\ page_number' = page_number + 1
               /\ pc' = "sleep"
               /\ fetch_log' = fetch_log
               /\ bypass_calls' = bypass_calls
        /\ sleeps' # sleeps
            => /\ pc = "sleep"
               /\ sleeps' = sleeps + 1
               /\ since_timer_start' = since_timer_start + PacingDelay
               /\ fetch_log' = fetch_log
               /\ bypass_calls' = bypass_calls
        /\ (pc = "dedup" /\ pc' = "done")
            => sleeps' = sleeps /\ since_timer_start' = since_timer_start
        /\ \A i \in 1..Len(fetch_log') :
               i > Len(fetch_log) => sleeps' = fetch_log'[i][1] - 1 ]_vars

\* Page 3 is being requested after two sleeps; the second one brought the
\* age of the headers from 30 s to 40 s.
C15_Witness ==
    /\ pc = "central"
    /\ page_number = 3
    /\ sleeps = 2
    /\ Len(fetch_log) = 7
    /\ since_timer_start = 6 * 5 + 2 * PacingDelay + 5

\* The zone and the page of the i-th request.
ZoneOf(i) == fetch_log[i][2]
PageOf(i) == fetch_log[i][1]

\* C16 as stated: any two requests of a crawl that differ in zone or in page
\* number carry different LEADIDUUID values.
C16_NoIdReused ==
    \A i, j \in 1..Len(sent) :
        (ZoneOf(i) # ZoneOf(j) \/ PageOf(i) # PageOf(j))
            => sent[i].query.leadid # sent[j].query.leadid

\* C16 as amended: each of the three renderings draws its own uuid4, no two
\* zones have the same one, and every request of a zone, whatever its page,
\* carries the value rendered for that zone; so two requests carry different
\* values exactly when they differ in zone.
C16_IdPerZone ==
    /\ \A y, z \in DOMAIN queries :
           (queries[y].leadid = queries[z].leadid) <=> (y = z)
    /\ DOMAIN queries # {} => uuid_calls = 3
    /\ \A i \in 1..Len(sent) :
           sent[i].query.leadid = queries[ZoneOf(i)].leadid

\* West has been requested for pages 1 and 2 with the same value, central
\* with another.
C16_Witness ==
    /\ Len(sent) >= 4
    /\ PageOf(1) = 1 /\ PageOf(4) = 2
    /\ ZoneOf(1) = "west" /\ ZoneOf(4) = "west"
    /\ sent[1].query.leadid = sent[4].query.leadid
    /\ sent[2].query.leadid # sent[1].query.leadid

\* C17: the three queries are rendered once, before any request, and kept
\* (the cache and the variables of get_all_pages hold the same texts, with
\* PAGENUMBER still in them); the text sent for a zone and a page is that
\* zone's text with the page number in the place of PAGENUMBER, so that two
\* pages of a zone differ in the page number only.
C17_TemplatePerZone ==
    /\ pc \in {"update_vehicles", "get_all_pages"} => DOMAIN queries = {}
    /\ DOMAIN queries = {} => fetch_log = <<>> /\ uuid_calls = 0
    /\ DOMAIN queries # {}
           => /\ DOMAIN queries = DOMAIN zip_codes
              /\ query_cache = queries
              /\ uuid_calls = 3
              /\ \A z \in DOMAIN queries :
                     /\ queries[z].page = "PAGENUMBER"
                     /\ queries[z].zip = zip_codes[z]
                     /\ queries[z].model = MODEL
    /\ \A i \in 1..Len(sent) :
           /\ sent[i].query.page = ToString(PageOf(i))
           /\ sent[i].query = [queries[ZoneOf(i)] EXCEPT !.page = ToString(PageOf(i))]

\* East has been requested for pages 1 and 2 with the distance drawn at the
\* top of randbelow's range: the two texts differ, and in the page only.
C17_Witness ==
    /\ Len(sent) >= 6
    /\ ZoneOf(3) = "east" /\ ZoneOf(6) = "east"
    /\ sent[3].query.distance = ToString(DistanceBase + DistanceSpread - 1)
    /\ sent[3].query.page = "1"
    /\ sent[6].query.page = "2"
    /\ sent[6].query = [sent[3].query EXCEPT !.page = "2"]
    /\ queries.east.page = "PAGENUMBER"

\* C18 as stated: no crawl sends more than 3 * 40 requests, and every crawl
\* whose MODEL is set and whose acquisitions of headers succeed ends by one
\* of the two breaks, Converged or PageCeiling, whatever the upstream
\* answers.
C18_Termination ==
    /\ [](Len(fetch_log) <= 3 * PageCeilingMax)
    /\ [](page_number <= PageCeilingMax + 1)
    /\ <>(\/ pc = "done" /\ exit_reason \in {"Converged", "PageCeiling"}
          \/ pc = "raised" /\ exc.in \in {"update_vehicles", "wafbypass"})

\* C19: WAFBypass().run() is called, and headers and timer_start are set,
\* only before the loop and by the check at the top of a page; a request,
\* the concat, drop_duplicates and the sleep leave the headers as they are
\* and let their age grow by the time the step takes; every request of a
\* page is sent with the headers of the page's first request.
C19_OneCredentialPerPage ==
    [][ /\ (headers' # headers \/ bypass_calls' # bypass_calls)
            => \/ pc = "bypass" /\ pc' \in {"top", "raised"}
               \/ pc = "top" /\ pc' \in {"west", "raised"}
        /\ pc \in {"west", "central", "east"}
            => /\ headers' = headers
               /\ since_timer_start' - since_timer_start \in FetchTimes(upstream)
        /\ pc = "dedup" => headers' = headers /\ since_timer_start' = since_timer_start
        /\ pc = "sleep"
            => headers' = headers /\ since_timer_start' = since_timer_start + PacingDelay
        /\ Len(sent') > Len(sent)
            => /\ sent'[Len(sent')].headers = headers
               /\ sent'[Len(sent')].headers = sent'[3 * (page_number - 1) + 1].headers ]_vars

\* The three requests of a later page have been sent with the headers that
\* the check at the top of that page acquired; page 1 was sent with the
\* first ones.
C19_Witness ==
    /\ pc = "dedup"
    /\ page_number > 1
    /\ headers = 2
    /\ sent[1].headers = 1
    /\ sent[Len(sent) - 3].headers = 1
    /\ \A k \in 0..2 : sent[Len(sent) - k].headers = 2 /\ PageOf(Len(sent) - k) = page_number

====
